---- MODULE Spec2Model ----
(***************************************************************************)
(* Model of api/views/map/route.py: the two route views (POIRouteView and  *)
(* ConcreteRouteView) and the helpers of AbstractRouteView.                *)
(*                                                                         *)
(* One request is followed from post() to its Response or to the exception *)
(* that leaves post().  The 2GIS provider is the environment: every call   *)
(* the views make is an entry of `calls`, and the reply is chosen by the   *)
(* action ProviderReply from the replies the call can get.                 *)
(*                                                                         *)
(* Units.  Coordinates are integers, in thousandths of a degree.  Times    *)
(* are integers, in 1/TimeScale of a minute.  math.pi is PiMilli / 1000.   *)
(***************************************************************************)
EXTENDS Integers, Sequences, FiniteSets, TLC

VARIABLES
    pc,                 \* the method whose provider call is outstanding, "idle" or "done"
    awaiting,           \* TRUE while the provider has not answered the last call
    response,           \* the last reply received from the provider
    calls,              \* the provider calls of this request, in the order issued
    view,               \* "poi" | "concrete" | "none"
    start_point,        \* post(): start_point
    query,              \* search_destination(): query, as Some(term) or None
    polygon,            \* search_destination(): <<point1, point2>>
    end_point,          \* post(): end_point
    end_point_metadata, \* prepare_route_response(): end_point_metadata
    walking_time,       \* post(): walking_time
    route_points,       \* prepare_route_response(): route_points
    alternative,        \* build_route(): alternative
    route,              \* the serialized LineString of build_route
    sample_points,      \* _get_route_points_metadata(): metadata_route_points
    sample_idx,         \* _get_route_points_metadata(): position of the for loop
    metadata,           \* _get_route_points_metadata(): metadata
    outcome,            \* "none" | "Response" | the exception that left post()
    result              \* the Response data, or the exception's payload

vars == <<pc, awaiting, response, calls, view, start_point, query, polygon,
          end_point, end_point_metadata, walking_time, route_points,
          alternative, route, sample_points, sample_idx, metadata, outcome,
          result>>

(***************************************************************************)
(* Bounds of the model.                                                    *)
(***************************************************************************)
MaxItems == 3       \* longest item list of a search reply
MaxEdges == 4       \* most edges of a directions reply

(***************************************************************************)
(* Python values.                                                          *)
(***************************************************************************)
None == <<>>
Some(x) == <<x>>

Abs(n) == IF n < 0 THEN 0 - n ELSE n

\* Python's round(): n / d rounded to the nearest integer, halves to even.
RoundHalfEven(n, d) ==
    LET q == n \div d
        r == n % d
    IN  IF 2 * r < d THEN q
        ELSE IF 2 * r > d THEN q + 1
        ELSE IF q % 2 = 0 THEN q ELSE q + 1

\* geojson.Point
Point(lon, lat) == [type |-> "Point", coordinates |-> <<lon, lat>>]

\* geomet.wkt.loads of "POINT (x y)" and of "LINESTRING (x y, ...)".  A WKT
\* text is the sequence of its tokens: the keyword, then the numbers.
RECURSIVE WktPositions(_)
WktPositions(nums) ==
    IF Len(nums) < 2 THEN <<>>
    ELSE <<<<nums[1], nums[2]>>>> \o WktPositions(SubSeq(nums, 3, Len(nums)))

wkt_loads(text) ==
    IF text[1] = "POINT"
    THEN [type |-> "Point", coordinates |-> <<text[2], text[3]>>]
    ELSE [type |-> "LineString", coordinates |-> WktPositions(Tail(text))]

(***************************************************************************)
(* AbstractRouteView                                                       *)
(***************************************************************************)
TimeScale == 100 * 100
PiMilli == 3142
SPEED == (3 * 1000) \div 60
AVERAGE_STRIDE_LENGTH_DM == 6
METADATA_ROUTE_POINTS_COUNT == 4
OPTIMAL_WALK_TIME == 30
ALTERNATIVES_COUNT == 5

\* '{} {}'.format(*point['coordinates']) joined by ','
RECURSIVE points_to_query(_)
points_to_query(points) ==
    IF points = <<>> THEN <<>>
    ELSE LET c == points[1].coordinates
             str_point == <<c[1], " ", c[2]>>
         IN  IF Len(points) = 1 THEN str_point
             ELSE str_point \o <<",">> \o points_to_query(Tail(points))

\* '{},{}'.format(*point['coordinates'])
format_point(point) == <<point.coordinates[1], ",", point.coordinates[2]>>

\* geopy's great_circle(a, b).meters, a and b given as the views give them:
\* point['coordinates'], which geopy reads as (latitude, longitude).  All the
\* points the views measure lie on one line of equal second coordinate, where
\* the distance is the arc of the first: 111 m for a thousandth of a degree.
great_circle_meters(a, b) == 111 * Abs(a[1] - b[1])

estimate_walking_time(point1, point2) ==
    (great_circle_meters(point1.coordinates, point2.coordinates) * TimeScale) \div SPEED

\* math.pi * t
TimesPi(t) == (PiMilli * t) \div 1000

RECURSIVE serialize_linestring(_)
serialize_linestring(coordinates) ==
    IF coordinates = <<>> THEN <<>>
    ELSE <<[longitude |-> coordinates[1][1], latitude |-> coordinates[1][2]]>>
         \o serialize_linestring(Tail(coordinates))

\* utils.double_gis.geometry
get_center_of_points(p1, p2) ==
    <<(p1.coordinates[1] + p2.coordinates[1]) \div 2,
      (p1.coordinates[2] + p2.coordinates[2]) \div 2>>

get_normal_vector(p1, p2) ==
    <<0 - (p2.coordinates[2] - p1.coordinates[2]),
      p2.coordinates[1] - p1.coordinates[1]>>

get_points_for_round_route(start, end) ==
    LET center_point_coordinates == get_center_of_points(start, end)
        normal_vector == get_normal_vector(start, end)
        second_point == Point(center_point_coordinates[1] + normal_vector[1],
                              center_point_coordinates[2] + normal_vector[2])
        fourth_point == Point(center_point_coordinates[1] - normal_vector[1],
                              center_point_coordinates[2] - normal_vector[2])
    IN  <<start, second_point, end, fourth_point, start>>

\* build_route, lines 59-63: the edges of every step of every leg, parsed.
RECURSIVE EdgeLinestrings(_)
EdgeLinestrings(edges) ==
    IF edges = <<>> THEN <<>>
    ELSE <<wkt_loads(edges[1].geometry.selection)>> \o EdgeLinestrings(Tail(edges))

RECURSIVE StepLinestrings(_)
StepLinestrings(steps) ==
    IF steps = <<>> THEN <<>>
    ELSE EdgeLinestrings(steps[1].edges) \o StepLinestrings(Tail(steps))

RECURSIVE LegLinestrings(_)
LegLinestrings(legs) ==
    IF legs = <<>> THEN <<>>
    ELSE StepLinestrings(legs[1].steps) \o LegLinestrings(Tail(legs))

\* build_route, lines 65-67: linestring['coordinates'][1:] of each linestring
RECURSIVE ExtendPositions(_)
ExtendPositions(linestrings) ==
    IF linestrings = <<>> THEN <<>>
    ELSE Tail(linestrings[1].coordinates) \o ExtendPositions(Tail(linestrings))

\* build_route, line 66: linestrings[:-1]
AllButLast(s) == IF s = <<>> THEN <<>> ELSE SubSeq(s, 1, Len(s) - 1)

\* a variant of line 66 that iterates over linestrings, the last one included
final_linestring_positions_keeping_last(linestrings) == ExtendPositions(linestrings)

final_linestring_positions(linestrings) == ExtendPositions(AllButLast(linestrings))

\* a variant of line 56 that takes every reply
DirectionsNeverRefused(resp) == FALSE

\* build_route, line 56: the reply is refused
DirectionsRefused(resp) == resp.code # 200

\* a variant of build_route that refuses a reply of fewer than 3 edges
build_route_refusing_short(resp) ==
    IF DirectionsRefused(resp)
    THEN [raised |-> "ValidationError", value |-> resp]
    ELSE IF Len(LegLinestrings(resp.legs)) < 3
    THEN [raised |-> "EmptyRouteError", value |-> None]
    ELSE [raised |-> "none",
          value |-> [type |-> "LineString",
                     coordinates |-> final_linestring_positions(LegLinestrings(resp.legs))]]

\* build_route, lines 56-68, of the provider's reply
build_route(resp) ==
    IF DirectionsRefused(resp)
    THEN [raised |-> "ValidationError", value |-> resp]
    ELSE [raised |-> "none",
          value |-> [type |-> "LineString",
                     coordinates |-> final_linestring_positions(LegLinestrings(resp.legs))]]

\* _get_route_points_metadata, lines 71-79
metadata_route_points(points) ==
    LET route_points_count == Len(points)
    IN  IF route_points_count <= METADATA_ROUTE_POINTS_COUNT
        THEN points
        ELSE [i \in 1..(METADATA_ROUTE_POINTS_COUNT - 1) |->
                points[i * (route_points_count \div METADATA_ROUTE_POINTS_COUNT) + 1]]

\* _get_route_points_metadata, lines 89-99, for one reply
NearbyItem(resp) ==
    IF resp.code = 200
    THEN IF resp.items = <<>>
         THEN [raised |-> "IndexError", value |-> None]
         ELSE LET item == resp.items[1]
                  position == wkt_loads(item.geometry.selection).coordinates
              IN  [raised |-> "none",
                   value |-> Some([id |-> item.id, geometry |-> item.geometry,
                                   point |-> [longitude |-> position[1],
                                              latitude |-> position[2]]])]
    ELSE [raised |-> "none", value |-> None]

\* prepare_route_response, lines 104-114
ResponseData(wt, line, meta, end_meta) ==
    [walking_time |-> RoundHalfEven(wt, TimeScale \div 100),
     route |-> line,
     route_points |-> meta,
     steps_count |-> RoundHalfEven(SPEED * wt * 10, AVERAGE_STRIDE_LENGTH_DM * TimeScale),
     end_point_data |-> end_meta]

(***************************************************************************)
(* POIRouteView                                                            *)
(***************************************************************************)
get_search_polygon(start) ==
    LET coordinates == start.coordinates
    IN  <<Point(coordinates[1] - 29, coordinates[2] + 19),
          Point(coordinates[1] + 29, coordinates[2] - 19)>>

\* the Russian terms of lines 130-138, transliterated
get_search_query_by_type(type) ==
    IF type = "BAR" THEN Some("Bar")
    ELSE IF type = "CULTURE" THEN Some("Teatr")
    ELSE IF type = "FOOD" THEN Some("Produkty")
    ELSE IF type = "ROMANTIC" THEN Some("Kinoteatr")
    ELSE IF type = "INVESTIGATE" THEN Some("Pamyatnik")
    ELSE None

\* a variant of lines 148-149 and 181-182 with >= for >
IsCloserOrEqual(optimal_time, candidate_time) ==
    \/ optimal_time = None
    \/ Abs(optimal_time[1] - OPTIMAL_WALK_TIME * TimeScale)
         >= Abs(candidate_time - OPTIMAL_WALK_TIME * TimeScale)

\* lines 148-149 and 181-182: the candidate replaces the running best
IsCloser(optimal_time, candidate_time) ==
    \/ optimal_time = None
    \/ Abs(optimal_time[1] - OPTIMAL_WALK_TIME * TimeScale)
         > Abs(candidate_time - OPTIMAL_WALK_TIME * TimeScale)

\* lines 144-152: the for loop, from item i on, best the three running values
RECURSIVE OrganizationLoop(_, _, _, _)
OrganizationLoop(start, items, i, best) ==
    IF i > Len(items) THEN best
    ELSE LET item == items[i]
             raw_point == item.point
             item_point == Point(raw_point.lon, raw_point.lat)
             time == TimesPi(estimate_walking_time(start, item_point))
         IN  OrganizationLoop(start, items, i + 1,
                IF IsCloser(best.optimal_time, time)
                THEN [optimal_point |-> Some(item_point), optimal_time |-> Some(time),
                      metadata |-> Some(item)]
                ELSE best)

\* lines 178-185
RECURSIVE GeoLoop(_, _, _, _)
GeoLoop(start, items, i, best) ==
    IF i > Len(items) THEN best
    ELSE LET item == items[i]
             item_point == wkt_loads(item.geometry.selection)
             time == TimesPi(estimate_walking_time(start, item_point))
         IN  GeoLoop(start, items, i + 1,
                IF IsCloser(best.optimal_time, time)
                THEN [optimal_point |-> Some(item_point), optimal_time |-> Some(time),
                      metadata |-> Some(item)]
                ELSE best)

NoBest == [optimal_point |-> None, optimal_time |-> None, metadata |-> None]

\* lines 153-158: optimal_point['coordinates'] of None is a TypeError
search_optimal_organization_point(start, items) ==
    LET best == OrganizationLoop(start, items, 1, NoBest)
    IN  IF best.optimal_point = None
        THEN [raised |-> "TypeError", value |-> None]
        ELSE LET position == best.optimal_point[1].coordinates
                 item == best.metadata[1]
             IN  [raised |-> "none",
                  value |-> <<best.optimal_point[1],
                              [id |-> item.id,
                               point |-> [longitude |-> position[1],
                                          latitude |-> position[2]]]>>]

\* lines 186-191
search_optimal_geo_point(start, items) ==
    LET best == GeoLoop(start, items, 1, NoBest)
    IN  IF best.optimal_point = None
        THEN [raised |-> "TypeError", value |-> None]
        ELSE LET position == best.optimal_point[1].coordinates
                 item == best.metadata[1]
             IN  [raised |-> "none",
                  value |-> <<best.optimal_point[1],
                              [id |-> item.id, geometry |-> item.geometry,
                               point |-> [longitude |-> position[1],
                                          latitude |-> position[2]]]>>]

\* a variant of line 205 with `query is not None`
search_geo_point_raising_with_term(start, q, resp) ==
    IF resp.code = 200
    THEN search_optimal_geo_point(start, resp.items)
    ELSE IF q # None
         THEN [raised |-> "ValidationError", value |-> resp]
         ELSE [raised |-> "none", value |-> None]

\* search_geo_point, lines 203-206, of the reply: the scorer's result, a
\* ValidationError, or a plain return (of None)
search_geo_point(start, q, resp) ==
    IF resp.code = 200
    THEN search_optimal_geo_point(start, resp.items)
    ELSE IF q = None
         THEN [raised |-> "ValidationError", value |-> resp]
         ELSE [raised |-> "none", value |-> None]

\* a variant of search_organization_point without lines 170-171
search_organization_point_unchecked(start, resp) ==
    search_optimal_organization_point(start, resp.items)

\* search_organization_point, lines 170-172, of the reply
search_organization_point(start, resp) ==
    IF resp.code # 200
    THEN [raised |-> "ValidationError", value |-> resp]
    ELSE search_optimal_organization_point(start, resp.items)

\* search_geo_point and search_organization_point, lines 161-168 and 194-201
SearchParams(point1, point2, fields, q) ==
    IF q = None
    THEN [point1 |-> format_point(point1), point2 |-> format_point(point2),
          fields |-> fields, type |-> "attraction,building,poi"]
    ELSE [point1 |-> format_point(point1), point2 |-> format_point(point2),
          fields |-> fields, type |-> "attraction,building,poi", q |-> q[1]]

\* build_route, lines 50-55
DirectionsParams(points, alt) ==
    [waypoints |-> points_to_query(points), edge_filter |-> "pedestrian",
     alternative |-> alt]

\* _get_route_points_metadata, lines 82-88
NearbyParams(point) ==
    [point |-> format_point(point), fields |-> "items.geometry.selection",
     radius |-> 100, type |-> "attraction,poi", page_size |-> 1]

(***************************************************************************)
(* The provider: the replies a call can get.                               *)
(***************************************************************************)
\* the places the provider knows, and the requests' points
Places == {<<0, 0>>, <<2, 0>>, <<10, 0>>}
StartPoints == {<<4, 0>>, <<6, 0>>}
EndPoints == {<<0, 0>>, <<6, 0>>}
Types == {"BAR", "CULTURE", "FOOD", "ROMANTIC", "INVESTIGATE", "NONE"}

PlaceLists == UNION {[1..n -> Places] : n \in 0..MaxItems}

WktPoint(c) == <<"POINT", c[1], c[2]>>

\* the id of the object at a place
PlaceId(place) == 100 + place[1]

GeoItems(places) ==
    [i \in 1..Len(places) |->
        [id |-> PlaceId(places[i]), geometry |-> [selection |-> WktPoint(places[i])]]]

BranchItems(places) ==
    [i \in 1..Len(places) |->
        [id |-> PlaceId(places[i]), point |-> [lon |-> places[i][1], lat |-> places[i][2]]]]

Refusal == [code |-> 404, items |-> <<>>]

GeoReplies == {Refusal} \cup {[code |-> 200, items |-> GeoItems(p)] : p \in PlaceLists}

BranchReplies == {Refusal} \cup {[code |-> 200, items |-> BranchItems(p)] : p \in PlaceLists}

NearbyReplies ==
    {Refusal, [code |-> 200, items |-> <<>>],
     [code |-> 200, items |-> GeoItems(<<<<2, 0>>>>)]}

\* the geometries of an edge: a zero-length mark, a stretch of road from it,
\* the stretch that follows
EdgeGeometries ==
    {<<"LINESTRING", 4, 0, 4, 0>>,
     <<"LINESTRING", 4, 0, 4, 1, 5, 1>>,
     <<"LINESTRING", 5, 1, 6, 0>>}

EdgeLists == UNION {[1..n -> EdgeGeometries] : n \in 0..MaxEdges}

Edge(g) == [geometry |-> [selection |-> g]]

\* the edges of a reply, two to a step and one step to a leg
RECURSIVE Legs(_)
Legs(geoms) ==
    IF geoms = <<>> THEN <<>>
    ELSE IF Len(geoms) = 1
         THEN <<[steps |-> <<[edges |-> <<Edge(geoms[1])>>]>>]>>
         ELSE <<[steps |-> <<[edges |-> <<Edge(geoms[1]), Edge(geoms[2])>>]>>]>>
              \o Legs(SubSeq(geoms, 3, Len(geoms)))

DirectionsReplies ==
    {[code |-> 404, legs |-> <<>>]} \cup {[code |-> 200, legs |-> Legs(g)] : g \in EdgeLists}

IsNearby(call) == call.op = "geo.search" /\ "radius" \in DOMAIN call.params

Replies(call) ==
    IF call.op = "transport.calculate_directions" THEN DirectionsReplies
    ELSE IF call.op = "catalog.branch.search" THEN BranchReplies
    ELSE IF IsNearby(call) THEN NearbyReplies
    ELSE GeoReplies

(***************************************************************************)
(* The request.                                                            *)
(***************************************************************************)
Init ==
    /\ pc = "idle"
    /\ awaiting = FALSE
    /\ response = None
    /\ calls = <<>>
    /\ view = "none"
    /\ start_point = None
    /\ query = None
    /\ polygon = None
    /\ end_point = None
    /\ end_point_metadata = None
    /\ walking_time = 0
    /\ route_points = <<>>
    /\ alternative = 0
    /\ route = None
    /\ sample_points = <<>>
    /\ sample_idx = 0
    /\ metadata = <<>>
    /\ outcome = "none"
    /\ result = None

Call(op, params) ==
    /\ calls' = Append(calls, [op |-> op, params |-> params, code |-> 0])
    /\ awaiting' = TRUE

Raise(exception, payload) ==
    /\ pc' = "done"
    /\ outcome' = exception
    /\ result' = payload
    /\ awaiting' = FALSE

\* the provider answers the outstanding call
ProviderReply ==
    /\ awaiting
    /\ \E resp \in Replies(calls[Len(calls)]) :
          /\ response' = resp
          /\ calls' = [calls EXCEPT ![Len(calls)].code = resp.code]
    /\ awaiting' = FALSE
    /\ UNCHANGED <<pc, view, start_point, query, polygon, end_point,
                   end_point_metadata, walking_time, route_points, alternative,
                   route, sample_points, sample_idx, metadata, outcome, result>>

\* POIRouteView.post, lines 217-221, into search_destination and
\* search_geo_point up to the call of api.geo.search
POIRouteView_post ==
    /\ pc = "idle"
    /\ \E p \in StartPoints, type \in Types :
          LET start == Point(p[1], p[2])
              corners == get_search_polygon(start)
              q == get_search_query_by_type(type)
          IN  /\ start_point' = Some(start)
              /\ polygon' = corners
              /\ query' = q
              /\ Call("geo.search",
                      SearchParams(corners[1], corners[2], "items.geometry.selection", q))
    /\ view' = "poi"
    /\ pc' = "search_geo_point"
    /\ UNCHANGED <<response, end_point, end_point_metadata, walking_time,
                   route_points, alternative, route, sample_points, sample_idx,
                   metadata, outcome, result>>

\* POIRouteView.post, lines 221-230, once search_destination has returned
\* <<point, item>>: into prepare_route_response and build_route up to the call
\* of api.transport.calculate_directions
ToDirections(found) ==
    LET start == start_point[1]
        points == get_points_for_round_route(start, found[1])
    IN  /\ end_point' = Some(found[1])
        /\ end_point_metadata' = Some(found[2])
        /\ walking_time' = TimesPi(estimate_walking_time(start, found[1]))
        /\ route_points' = points
        /\ alternative' = 0
        /\ Call("transport.calculate_directions", DirectionsParams(points, 0))
        /\ pc' = "build_route"
        /\ UNCHANGED <<outcome, result>>

\* search_geo_point, lines 203-206, and search_destination, lines 212-214
SearchGeoPointReturns ==
    /\ pc = "search_geo_point"
    /\ ~awaiting
    /\ LET r == search_geo_point(start_point[1], query, response)
       IN  IF r.raised # "none"
           THEN /\ Raise(r.raised, r.value)
                /\ UNCHANGED <<calls, end_point, end_point_metadata, walking_time,
                               route_points, alternative>>
           ELSE IF r.value = None
           THEN /\ Call("catalog.branch.search",
                        SearchParams(polygon[1], polygon[2], "items.point", query))
                /\ pc' = "search_organization_point"
                /\ UNCHANGED <<end_point, end_point_metadata, walking_time,
                               route_points, alternative, outcome, result>>
           ELSE ToDirections(r.value)
    /\ UNCHANGED <<response, view, start_point, query, polygon, route,
                   sample_points, sample_idx, metadata>>

\* search_organization_point, lines 170-172
SearchOrganizationPointReturns ==
    /\ pc = "search_organization_point"
    /\ ~awaiting
    /\ LET r == search_organization_point(start_point[1], response)
       IN  IF r.raised # "none"
           THEN /\ Raise(r.raised, r.value)
                /\ UNCHANGED <<calls, end_point, end_point_metadata, walking_time,
                               route_points, alternative>>
           ELSE ToDirections(r.value)
    /\ UNCHANGED <<response, view, start_point, query, polygon, route,
                   sample_points, sample_idx, metadata>>

\* ConcreteRouteView.post, lines 239-250, into prepare_route_response and
\* build_route up to the call of api.transport.calculate_directions
ConcreteRouteView_post ==
    /\ pc = "idle"
    /\ \E s \in StartPoints, e \in EndPoints :
          LET start == Point(s[1], s[2])
              end == Point(e[1], e[2])
          IN  /\ start_point' = Some(start)
              /\ end_point' = Some(end)
              /\ walking_time' = estimate_walking_time(start, end)
              /\ route_points' = <<start, end>>
              /\ Call("transport.calculate_directions",
                      DirectionsParams(<<start, end>>, ALTERNATIVES_COUNT))
    /\ alternative' = ALTERNATIVES_COUNT
    /\ view' = "concrete"
    /\ pc' = "build_route"
    /\ UNCHANGED <<response, query, polygon, end_point_metadata, route,
                   sample_points, sample_idx, metadata, outcome, result>>

\* build_route, lines 56-68, then prepare_route_response, lines 107-110, into
\* _get_route_points_metadata up to the first call of api.geo.search
BuildRouteReturns ==
    /\ pc = "build_route"
    /\ ~awaiting
    /\ LET r == build_route(response)
           samples == metadata_route_points(route_points)
       IN  IF r.raised # "none"
           THEN /\ Raise(r.raised, r.value)
                /\ UNCHANGED <<calls, route, sample_points, sample_idx>>
           ELSE /\ route' = Some(serialize_linestring(r.value.coordinates))
                /\ sample_points' = samples
                /\ sample_idx' = 1
                /\ Call("geo.search", NearbyParams(samples[1]))
                /\ pc' = "get_route_points_metadata"
                /\ UNCHANGED <<outcome, result>>
    /\ metadata' = <<>>
    /\ UNCHANGED <<response, view, start_point, query, polygon, end_point,
                   end_point_metadata, walking_time, route_points, alternative>>

\* a variant of _get_route_points_metadata that repeats a refused lookup
GetRoutePointsMetadataRetries ==
    /\ pc = "get_route_points_metadata"
    /\ ~awaiting
    /\ LET r == NearbyItem(response)
           found == metadata \o r.value
       IN  IF r.raised # "none"
           THEN /\ Raise(r.raised, r.value)
                /\ UNCHANGED <<calls, metadata, sample_idx>>
           ELSE IF response.code # 200
           THEN /\ Call("geo.search", NearbyParams(sample_points[sample_idx]))
                /\ UNCHANGED <<pc, outcome, result, metadata, sample_idx>>
           ELSE /\ metadata' = found
                /\ sample_idx' = sample_idx + 1
                /\ IF sample_idx < Len(sample_points)
                   THEN /\ Call("geo.search", NearbyParams(sample_points[sample_idx + 1]))
                        /\ UNCHANGED <<pc, outcome, result>>
                   ELSE /\ pc' = "done"
                        /\ outcome' = "Response"
                        /\ result' = ResponseData(walking_time, route[1], found,
                                                  end_point_metadata)
                        /\ awaiting' = FALSE
                        /\ UNCHANGED calls
    /\ UNCHANGED <<response, view, start_point, query, polygon, end_point,
                   end_point_metadata, walking_time, route_points, alternative,
                   route, sample_points>>

\* _get_route_points_metadata, lines 89-100: one turn of the for loop, up to
\* the next call of api.geo.search or, after the last point, through
\* prepare_route_response, lines 104-114
GetRoutePointsMetadataReturns ==
    /\ pc = "get_route_points_metadata"
    /\ ~awaiting
    /\ LET r == NearbyItem(response)
           found == metadata \o r.value
       IN  IF r.raised # "none"
           THEN /\ Raise(r.raised, r.value)
                /\ UNCHANGED <<calls, metadata, sample_idx>>
           ELSE /\ metadata' = found
                /\ sample_idx' = sample_idx + 1
                /\ IF sample_idx < Len(sample_points)
                   THEN /\ Call("geo.search", NearbyParams(sample_points[sample_idx + 1]))
                        /\ UNCHANGED <<pc, outcome, result>>
                   ELSE /\ pc' = "done"
                        /\ outcome' = "Response"
                        /\ result' = ResponseData(walking_time, route[1], found,
                                                  end_point_metadata)
                        /\ awaiting' = FALSE
                        /\ UNCHANGED calls
    /\ UNCHANGED <<response, view, start_point, query, polygon, end_point,
                   end_point_metadata, walking_time, route_points, alternative,
                   route, sample_points>>

Next ==
    \/ POIRouteView_post
    \/ ConcreteRouteView_post
    \/ ProviderReply
    \/ SearchGeoPointReturns
    \/ SearchOrganizationPointReturns
    \/ BuildRouteReturns
    \/ GetRoutePointsMetadataReturns

Spec == Init /\ [][Next]_vars

(***************************************************************************)
(* Definitions the properties share.                                       *)
(***************************************************************************)
LastCall == calls[Len(calls)]

IsSearch(call) == call.op = "catalog.branch.search" \/ (call.op = "geo.search" /\ ~IsNearby(call))

CallsOf(op) == {i \in 1..Len(calls) : calls[i].op = op}

NearbyCalls == {i \in 1..Len(calls) : IsNearby(calls[i])}

\* search_destination has dealt with the reply of the geo-search
GeoSearchHandled == view = "poi" /\ pc # "search_geo_point"

\* a scorer has just returned a destination: response is the reply it scored
JustScored == view = "poi" /\ pc = "build_route" /\ awaiting

\* build_route has just dealt with the reply in response
DirectionsHandled ==
    \/ pc = "get_route_points_metadata" /\ awaiting /\ sample_idx = 1
    \/ pc = "done" /\ calls # <<>> /\ LastCall.op = "transport.calculate_directions"

\* the linestrings of the directions reply in response, in order
ReplyLinestrings == LegLinestrings(response.legs)

\* the place of a candidate, in either encoding
ItemPlace(item) ==
    IF "geometry" \in DOMAIN item
    THEN <<item.geometry.selection[2], item.geometry.selection[3]>>
    ELSE <<item.point.lon, item.point.lat>>

\* | pi * estimate_walking_time(start, place) - 30 minutes |
Deviation(start, place) ==
    Abs(TimesPi(estimate_walking_time(start, Point(place[1], place[2])))
        - OPTIMAL_WALK_TIME * TimeScale)

\* the first candidate among those nearest to 30 minutes
ClosestFirst(start, items) ==
    CHOOSE k \in 1..Len(items) :
        /\ \A j \in 1..Len(items) :
              Deviation(start, ItemPlace(items[k])) <= Deviation(start, ItemPlace(items[j]))
        /\ \A j \in 1..(k - 1) :
              Deviation(start, ItemPlace(items[j])) > Deviation(start, ItemPlace(items[k]))

\* the destination a scorer must return for the candidates in response
ScoredAsClaimed ==
    LET items == response.items
        k == ClosestFirst(start_point[1], items)
        place == ItemPlace(items[k])
    IN  /\ end_point = Some(Point(place[1], place[2]))
        /\ end_point_metadata[1].id = items[k].id
        /\ end_point_metadata[1].point = [longitude |-> place[1], latitude |-> place[2]]

\* the points of linestrings i..j, each without its first
RECURSIVE TailsFrom(_, _, _)
TailsFrom(ls, i, j) ==
    IF i > j THEN <<>> ELSE Tail(ls[i].coordinates) \o TailsFrom(ls, i + 1, j)

\* the polyline of section 4.4: the first and the last edge dropped, the
\* first edge kept whole, the later ones without their first point
DropFirstAndLast(ls) == ls[2].coordinates \o TailsFrom(ls, 3, Len(ls) - 1)

(***************************************************************************)
(* C1                                                                      *)
(***************************************************************************)
\* C1, as claimed: for a reply of at least 3 edges the route is the polyline
\* with the first and the last edge discarded, the first retained edge whole.
C1_DropsFirstAndLastEdge ==
    (DirectionsHandled /\ response.code = 200 /\ Len(ReplyLinestrings) >= 3)
        => route = Some(serialize_linestring(DropFirstAndLast(ReplyLinestrings)))

\* C1, amended: the route is every edge but the last, each without its first
\* point, in order (the first edge is not discarded); for at least 3 edges it
\* is the claimed polyline exactly when the points of the first edge after its
\* first are the first point of the second edge and nothing else.
C1_EveryEdgeButLastWithoutFirstPoint ==
    (DirectionsHandled /\ response.code = 200)
        => LET ls == ReplyLinestrings
           IN  /\ route = Some(serialize_linestring(TailsFrom(ls, 1, Len(ls) - 1)))
               /\ Len(ls) >= 3 =>
                    ((route = Some(serialize_linestring(DropFirstAndLast(ls))))
                        <=> (Tail(ls[1].coordinates) = <<ls[2].coordinates[1]>>))

\* 4 edges, the first a zero-length mark where the second starts: the route
\* is the two middle edges, their junction once
C1_Witness ==
    /\ DirectionsHandled
    /\ response.code = 200
    /\ Len(ReplyLinestrings) = 4
    /\ ReplyLinestrings[1].coordinates = <<<<4, 0>>, <<4, 0>>>>
    /\ ReplyLinestrings[2].coordinates = <<<<4, 0>>, <<4, 1>>, <<5, 1>>>>
    /\ ReplyLinestrings[3].coordinates = <<<<5, 1>>, <<6, 0>>>>
    /\ route = Some(serialize_linestring(<<<<4, 0>>, <<4, 1>>, <<5, 1>>, <<6, 0>>>>))

C3_ScorerReturnsFirstClosest ==
    /\ JustScored => (response.items # <<>> /\ ScoredAsClaimed)
    /\ (view = "poi" /\ pc = "done" /\ IsSearch(LastCall) /\ response.code = 200)
          => response.items = <<>>

\* the point-shape scorer has chosen the second of three candidates, the third
\* as near to 30 minutes as the second
C3_Witness ==
    /\ JustScored
    /\ calls[Len(calls) - 1].op = "catalog.branch.search"
    /\ Len(response.items) = 3
    /\ ClosestFirst(start_point[1], response.items) = 2
    /\ Deviation(start_point[1], ItemPlace(response.items[3]))
         = Deviation(start_point[1], ItemPlace(response.items[2]))
    /\ ItemPlace(response.items[3]) # ItemPlace(response.items[2])
    /\ response.items[3].id # response.items[2].id
    /\ end_point_metadata[1].id = response.items[2].id

(***************************************************************************)
(* C4                                                                      *)
(***************************************************************************)
\* C4: a scorer given an empty candidate list fails with NoCandidatesError.
C4_EmptyListIsNoCandidatesError ==
    (view = "poi" /\ pc = "done" /\ IsSearch(LastCall) /\ response.code = 200
        /\ response.items = <<>>)
        => outcome = "NoCandidatesError"

(***************************************************************************)
(* C5                                                                      *)
(***************************************************************************)
\* C5, as claimed: the geo-search refused and a term given, the request fails
\* with the provider's error and the catalog search is never called.
C5_RefusedWithTermRaises ==
    (GeoSearchHandled /\ calls[1].code # 200 /\ query # None)
        => /\ CallsOf("catalog.branch.search") = {}
           /\ outcome = "ValidationError"

\* C5, amended: the geo-search refused and a term given, the request does not
\* fail there: the catalog search is called next, with the term; the geo-search
\* refused and no term given, the request fails with the provider's error,
\* which carries the reply, and the catalog search is never called.
C5_RefusedWithTermFallsBack ==
    (GeoSearchHandled /\ calls[1].code # 200)
        => IF query # None
           THEN /\ Len(calls) >= 2
                /\ calls[2].op = "catalog.branch.search"
                /\ calls[2].params.q = query[1]
                /\ (pc = "search_organization_point" /\ awaiting) => outcome = "none"
           ELSE /\ CallsOf("catalog.branch.search") = {}
                /\ Len(calls) = 1
                /\ pc = "done"
                /\ outcome = "ValidationError"
                /\ result = response
                /\ response.code = calls[1].code

C5_Witness ==
    /\ GeoSearchHandled
    /\ calls[1].code = 404
    /\ query = Some("Bar")
    /\ pc = "search_organization_point"
    /\ awaiting
    /\ calls[2].op = "catalog.branch.search"
    /\ outcome = "none"

(***************************************************************************)
(* C6                                                                      *)
(***************************************************************************)
\* C6, as claimed: the catalog search is called exactly when the geo-search
\* was refused and no term was given.
C6_CatalogExactlyWithoutTerm ==
    GeoSearchHandled
        => ((CallsOf("catalog.branch.search") # {}) <=> (calls[1].code # 200 /\ query = None))

\* C6, amended: the catalog search is called exactly when the geo-search was
\* refused and a term was given; it is called once, over the rectangle of the
\* geo-search and with the term; refused too, the request fails with the
\* provider's error, which carries the reply; otherwise the result is the
\* point-shape scorer's over the catalog items (its failure, for no items).
C6_CatalogExactlyWithTerm ==
    GeoSearchHandled
        => /\ (CallsOf("catalog.branch.search") # {}) <=> (calls[1].code # 200 /\ query # None)
           /\ CallsOf("catalog.branch.search") \subseteq {2}
           /\ CallsOf("catalog.branch.search") # {} =>
                /\ calls[2].params.point1 = calls[1].params.point1
                /\ calls[2].params.point2 = calls[1].params.point2
                /\ calls[2].params.point1 = format_point(polygon[1])
                /\ calls[2].params.point2 = format_point(polygon[2])
                /\ calls[2].params.q = calls[1].params.q
                /\ (calls[2].code \notin {0, 200} /\ pc # "search_organization_point")
                      => /\ pc = "done"
                         /\ Len(calls) = 2
                         /\ outcome = "ValidationError"
                         /\ result = response
                         /\ response.code = calls[2].code
                /\ (calls[2].code = 200 /\ Len(calls) = 2 /\ pc # "search_organization_point")
                      => /\ pc = "done"
                         /\ response.items = <<>>
                         /\ outcome = "TypeError"
                /\ (calls[2].code = 200 /\ JustScored)
                      => (response.items # <<>> /\ ScoredAsClaimed)

\* the catalog search, called after a refused geo-search with a term, was
\* refused too and the request has failed
C6_Witness ==
    /\ GeoSearchHandled
    /\ query # None
    /\ Len(calls) = 2
    /\ calls[1].code = 404
    /\ calls[2].op = "catalog.branch.search"
    /\ calls[2].code = 404
    /\ pc = "done"
    /\ outcome = "ValidationError"

(***************************************************************************)
(* C7                                                                      *)
(***************************************************************************)
\* C7: a geo-search that succeeds with zero items is followed by the catalog
\* search: the request never ends on it without the fallback.
C7_EmptyGeoSearchFallsBack ==
    (GeoSearchHandled /\ calls[1].code = 200 /\ Len(calls) = 1 /\ response.items = <<>>)
        => FALSE

(***************************************************************************)
(* C8                                                                      *)
(***************************************************************************)
\* C8: in either view, the directions call refused, the request ends in the
\* provider's error carrying the reply; no route and no Response is produced,
\* and the directions call is the request's last call and its only one.
C8_RefusedDirectionsFailsTheRequest ==
    \A i \in CallsOf("transport.calculate_directions") :
        (calls[i].code \notin {0, 200} /\ pc # "build_route")
            => /\ pc = "done"
               /\ outcome = "ValidationError"
               /\ result = response
               /\ response.code = calls[i].code
               /\ route = None
               /\ i = Len(calls)
               /\ CallsOf("transport.calculate_directions") = {i}

C8_Witness ==
    /\ view = "concrete"
    /\ pc = "done"
    /\ LastCall.op = "transport.calculate_directions"
    /\ LastCall.code = 404
    /\ outcome = "ValidationError"

(***************************************************************************)
(* C9                                                                      *)
(***************************************************************************)
\* the items of the nearby lookups that succeeded so far, in call order
NearbySuccesses == {i \in NearbyCalls : calls[i].code = 200}

\* C9: whatever the outcomes of the nearby lookups, the request returns a
\* Response, with one entry of route_points for each lookup that succeeded.
C9_EnrichmentIsBestEffort ==
    (pc = "done" /\ NearbyCalls # {})
        => /\ outcome = "Response"
           /\ Len(result.route_points) = Cardinality(NearbySuccesses)

(***************************************************************************)
(* C10                                                                     *)
(***************************************************************************)
\* the place of a call in the order search, catalog, directions, nearby
Rank(call) ==
    IF IsNearby(call) THEN 4
    ELSE IF call.op = "transport.calculate_directions" THEN 3
    ELSE IF call.op = "catalog.branch.search" THEN 2
    ELSE 1

\* C10: the calls of a request are in the order geo-search, catalog search,
\* directions, nearby lookups; the first three are made at most once and the
\* nearby lookups once for each sampled point, in the points' order; and a
\* nearby lookup is made only after the directions call has succeeded.
C10_CallsInOrderOnceEach ==
    /\ \A i, j \in 1..Len(calls) :
          i < j => /\ Rank(calls[i]) <= Rank(calls[j])
                   /\ Rank(calls[i]) < 4 => Rank(calls[i]) < Rank(calls[j])
    /\ \A i \in 1..Len(calls) : i < Len(calls) => calls[i].code # 0
    /\ Cardinality(NearbyCalls) <= Len(sample_points)
    /\ \A i \in NearbyCalls :
          /\ i > 1
          /\ \E d \in CallsOf("transport.calculate_directions") :
                /\ d < i
                /\ calls[d].code = 200
                /\ calls[i].params.point = format_point(sample_points[i - d])
    /\ \A i \in 1..Len(calls) :
          (calls[i].code \notin {0, 200} /\ i < Len(calls))
              => \/ IsNearby(calls[i])
                 \/ (Rank(calls[i]) = 1 /\ Rank(calls[i + 1]) = 2)

\* a category request that has made all its calls: the geo-search, the catalog
\* search, the directions and the three nearby lookups
C10_Witness ==
    /\ pc = "done"
    /\ outcome = "Response"
    /\ Len(calls) = 6
    /\ calls[1].code = 404
    /\ calls[2].op = "catalog.branch.search"
    /\ calls[3].op = "transport.calculate_directions"
    /\ calls[5].code = 404
    /\ Len(result.route_points) = 2

====
